---- MODULE Spec2Model ----
(***************************************************************************)
(* A model of xrpl_websocket.Client (src/xrpl_websocket/client.py): the    *)
(* background connection thread (_connect and the transport callbacks),    *)
(* the three timers (ping, pong deadline, connection/idle), the blocking   *)
(* send() with its registry responseEvents and shared queue q, and         *)
(* disconnect() / reconnect().                                             *)
(*                                                                         *)
(* Threads of the program and how they appear here:                        *)
(*   - the background thread (Client.run): variable thr is its position;   *)
(*   - the caller of disconnect(): variable disc is its position;          *)
(*   - each caller of send(): snd[s].pc is its position;                   *)
(*   - each threading.Timer thread: cbPing / cbConn / cbPong hold a        *)
(*     callback that has started (the timer can no longer be cancelled)    *)
(*     and has not finished yet.                                           *)
(* Time is abstracted: an armed timer may fire at any moment, a timed wait *)
(* may elapse at any moment.                                               *)
(***************************************************************************)
EXTENDS Integers, Sequences, FiniteSets, TLC

\* ------------------------------------------------------------------ bounds
MaxRuns == 2
MaxMsgs == 2
MaxDisconnects == 2
MaxOrphans == 1

Senders == {"s1", "s2"}
Ids == {"a", "b"}
NoSender == "nobody"
PingId == "ping"

VARIABLES
  thr,                \* position of the background thread
  disc,               \* position of the caller of disconnect()
  keep_running,       \* self.socket.keep_running
  sockOpen,           \* the transport is open: self.socket.send succeeds
  connected,          \* self.connected (Event)
  disconnect_called,  \* self.disconnect_called (Event)
  reconnect_required, \* self.reconnect_required (Event)
  pong_received,      \* self.pong_received
  ping_timer,         \* self.ping_timer: "none" | "armed" | "dead"
  connection_timer,   \* self.connection_timer: "none" | "armed" | "dead"
  pong_timer,         \* self.pong_timer: [st, fresh]; fresh: a pong has
                      \* arrived since the ping it was armed for was sent
  orphans,            \* armed pong timers self.pong_timer no longer refers to
  cbPing,             \* send_ping running on the ping timer's thread:
                      \* "idle" | "sent" | "answered" (a pong came meanwhile)
  cbConn,             \* _connection_timed_out running on its timer's thread
  cbPong,             \* _check_pong running on a pong timer's thread
  pingsOut,           \* pings the peer has received and not answered
  responseEvents,     \* self.responseEvents: id -> owner of the Event
  ev,                 \* the flag of the Event each send() call created
  q,                  \* self.q
  snd,                \* the send() calls
  wire,               \* requests the peer has received and not answered
  cur,                \* the message _on_message is handling
  curLate,            \* disconnect() had begun when cur arrived
  spawned,            \* user callbacks last started by _callback, and the
                      \* data they were given
  nruns,              \* transport runs started (run_forever calls)
  nmsg,               \* inbound messages delivered
  discCalls,          \* calls of disconnect() begun
  discReturns,        \* calls of disconnect() returned
  reconnects,         \* reconnect() calls made by timer callbacks since the
                      \* connection last opened or carried a message
  raised              \* the exception the latest _on_message call ended with

vars == <<thr, disc, keep_running, sockOpen, connected, disconnect_called,
          reconnect_required, pong_received, ping_timer, connection_timer,
          pong_timer, orphans, cbPing, cbConn, cbPong, pingsOut,
          responseEvents, ev, q, snd, wire, cur, curLate, spawned,
          nruns, nmsg, discCalls, discReturns, reconnects, raised>>

\* the variables by owner, for UNCHANGED
flagVars == <<connected, disconnect_called, reconnect_required, pong_received>>
timerVars == <<ping_timer, connection_timer, pong_timer, orphans>>
cbVars == <<cbPing, cbConn, cbPong>>
sendVars == <<responseEvents, ev, q, snd>>
msgVars == <<cur, curLate, nmsg>>
discVars == <<disc, discCalls, discReturns>>

\* ---------------------------------------------------------------- messages
\* A message as json.loads returns it.  type is the value of its 'type' key
\* ("" when the key is absent), id the value of its 'id' key ("" when absent or
\* empty), error tells whether it has an 'error' key; for names the send()
\* call a response answers.  Two pseudo-types stand for raw data that is no
\* JSON object: "array" parses to a list, "malformed" does not parse.
NoMsg == [type |-> "none", id |-> "", for |-> NoSender, error |-> FALSE]
Response(i, s) == [type |-> "response", id |-> i, for |-> s, error |-> FALSE]
Pong == [type |-> "response", id |-> PingId, for |-> NoSender, error |-> FALSE]
Event(kind, err) == [type |-> kind, id |-> "", for |-> NoSender, error |-> err]
Transaction == Event("transaction", FALSE)
LedgerClosed == Event("ledgerClosed", FALSE)
Validation == Event("validationReceived", FALSE)
Manifest == Event("manifestReceived", FALSE)
NoIdResponse == Event("response", FALSE)
NoKind == Event("", FALSE)
ErrorKind == Event("other", TRUE)
Unhandled == Event("other", FALSE)
Array == Event("array", FALSE)
Malformed == Event("malformed", FALSE)

CallbackNames == {"on_open", "on_close", "on_error", "on_reconnect",
                  "on_transaction", "on_validation", "on_ledger", "on_manifest"}

\* ------------------------------------------------------------------ timers
NoTimer == [st |-> "none", fresh |-> FALSE]
NewPongTimer == [st |-> "armed", fresh |-> FALSE]

\* threading.Timer.cancel(): an armed timer never fires; otherwise no effect
Cancel(t) == IF t = "armed" THEN "dead" ELSE t
CancelPong(t) == IF t.st = "armed" THEN [t EXCEPT !.st = "dead"] ELSE t

\* _callback(name, *args): a thread is started that runs the user's handler
\* on args; _callback returns without waiting for it.  spawned keeps the
\* handlers started by the latest action that started any, with the data they
\* were given; tick flips each time, so that every start changes it.
CallbackWith(sp, name, data) ==
  [names |-> <<name>>, arg |-> data, tick |-> 1 - sp.tick]
Callback(sp, name) == CallbackWith(sp, name, NoMsg)

\* ------------------------------------------------------------------- state
NoCallback == [pc |-> "idle", fresh |-> FALSE]
NewSend == [pc |-> "idle", id |-> "", txFailed |-> FALSE, out |-> "none",
            res |-> NoMsg, early |-> FALSE]

\* Client.__init__
Init ==
  /\ thr = "new" /\ disc = "idle"
  /\ keep_running = FALSE /\ sockOpen = FALSE
  /\ connected = FALSE /\ disconnect_called = FALSE
  /\ reconnect_required = FALSE /\ pong_received = FALSE
  /\ ping_timer = "none" /\ connection_timer = "none"
  /\ pong_timer = NoTimer /\ orphans = <<>>
  /\ cbPing = "idle" /\ cbConn = "idle" /\ cbPong = NoCallback
  /\ pingsOut = 0
  /\ responseEvents = [i \in Ids \cup {PingId} |-> NoSender]
  /\ ev = [s \in Senders |-> FALSE]
  /\ q = <<>>
  /\ snd = [s \in Senders |-> NewSend]
  /\ wire = {}
  /\ cur = NoMsg /\ curLate = FALSE
  /\ spawned = [names |-> <<>>, arg |-> NoMsg, tick |-> 0]
  /\ nruns = 0 /\ nmsg = 0 /\ discCalls = 0 /\ discReturns = 0
  /\ reconnects = 0 /\ raised = "none"

\* --------------------------------------------------------------- transport
\* WebSocketApp.close(): the run loop is told to stop and the connection is
\* shut, so every later socket.send raises WebSocketConnectionClosedException;
\* what the peer had not answered yet is lost with the connection.
Close ==
  /\ keep_running' = FALSE
  /\ sockOpen' = FALSE
  /\ wire' = {}
  /\ pingsOut' = 0

\* the connection is lost (closed by the peer or by an error)
Lost ==
  /\ sockOpen' = FALSE
  /\ wire' = {}
  /\ pingsOut' = 0

\* Client.reconnect
Reconnect ==
  /\ connected' = FALSE
  /\ reconnect_required' = TRUE
  /\ Close

\* the timer a send_ping leaves behind when it overwrites self.pong_timer
Orphaned(pt, orph) == IF pt.st = "armed" THEN Append(orph, pt.fresh) ELSE orph
CanArmPong == pong_timer.st = "armed" => Len(orphans) < MaxOrphans

\* Client._stop_timers
StopTimers ==
  /\ ping_timer' = Cancel(ping_timer)
  /\ connection_timer' = Cancel(connection_timer)
  /\ pong_timer' = CancelPong(pong_timer)
  /\ orphans' = orphans

\* Client.connect: Thread.start, run, _connect up to the first run_forever
Connect ==
  /\ thr = "new"
  /\ thr' = "connecting"
  /\ keep_running' = TRUE
  /\ nruns' = nruns + 1
  /\ UNCHANGED <<sockOpen, wire, pingsOut, flagVars, timerVars, cbVars,
                 sendVars, msgVars, discVars, spawned>>
  /\ UNCHANGED <<reconnects, raised>>

\* run_forever connects and calls _on_open: connected.set(), send_ping(),
\* _subscribe_ledger(), _start_timers() (which cancels the pong timer that
\* send_ping just armed), the on_open callback
OnOpen ==
  /\ thr = "connecting"
  /\ CanArmPong
  /\ thr' = "open"
  /\ sockOpen' = TRUE
  /\ connected' = TRUE
  /\ pingsOut' = pingsOut + 1
  /\ orphans' = Orphaned(pong_timer, orphans)
  /\ pong_timer' = CancelPong(NewPongTimer)
  /\ ping_timer' = "armed"
  /\ connection_timer' = "armed"
  /\ spawned' = Callback(spawned, "on_open")
  /\ UNCHANGED <<keep_running, wire, disconnect_called, reconnect_required,
                 pong_received, cbVars, sendVars, msgVars, discVars, nruns>>
  /\ reconnects' = 0
  /\ UNCHANGED raised

\* Client._on_error, as the transport calls it when connecting fails or the
\* open connection breaks; the run then ends through _on_close
OnError ==
  /\ \/ thr = "connecting"
     \/ thr = "open" /\ sockOpen /\ keep_running
  /\ thr' = "closing"
  /\ Lost
  /\ IF disconnect_called
       THEN UNCHANGED <<reconnect_required, connected, spawned>>
       ELSE /\ reconnect_required' = TRUE
            /\ connected' = FALSE
            /\ spawned' = Callback(spawned, "on_error")
  /\ UNCHANGED <<keep_running, disconnect_called, pong_received, timerVars,
                 cbVars, sendVars, msgVars, discVars, nruns>>
  /\ UNCHANGED <<reconnects, raised>>

\* the peer closes the connection in order: the run loop ends with no error
PeerClose ==
  /\ thr = "open" /\ sockOpen /\ keep_running
  /\ thr' = "closing"
  /\ Lost
  /\ UNCHANGED <<keep_running, flagVars, timerVars, cbVars, sendVars, msgVars,
                 discVars, spawned, nruns>>
  /\ UNCHANGED <<reconnects, raised>>

\* the run loop sees keep_running cleared by close() and ends
LocalClose ==
  /\ thr = "open" /\ ~keep_running
  /\ thr' = "closing"
  /\ Lost
  /\ UNCHANGED <<keep_running, flagVars, timerVars, cbVars, sendVars, msgVars,
                 discVars, spawned, nruns>>
  /\ UNCHANGED <<reconnects, raised>>

\* Client._on_close, called as run_forever returns
OnClose ==
  /\ thr = "closing"
  /\ thr' = "loop"
  /\ keep_running' = FALSE
  /\ connected' = FALSE
  /\ StopTimers
  /\ spawned' = Callback(spawned, "on_close")
  /\ UNCHANGED <<sockOpen, wire, pingsOut, disconnect_called,
                 reconnect_required, pong_received, cbVars, sendVars, msgVars,
                 discVars, nruns>>
  /\ UNCHANGED <<reconnects, raised>>

\* _connect, the retry loop's tests (lines 149-150).  With reconnect_required
\* and disconnect_called both set the loop tests again and again and changes
\* nothing: the thread stays at "loop".
RetryDecisionEnds == "done"

RetryDecision ==
  IF ~reconnect_required THEN "done"
  ELSE IF ~disconnect_called THEN "sleep"
  ELSE "loop"

LoopTest ==
  /\ thr = "loop"
  /\ RetryDecision # "loop"
  /\ thr' = RetryDecision
  /\ UNCHANGED <<keep_running, sockOpen, wire, pingsOut, flagVars, timerVars,
                 cbVars, sendVars, msgVars, discVars, spawned, nruns>>
  /\ UNCHANGED <<reconnects, raised>>

\* _connect, lines 154-159: the sleep ends, keep_running = True, run_forever.
\* Nothing is tested after the sleep.  The bound on runs applies to the runs
\* before a disconnect; at most one run can start after it.
Wake ==
  /\ thr = "sleep"
  /\ nruns < MaxRuns \/ disconnect_called
  /\ thr' = "connecting"
  /\ keep_running' = TRUE
  /\ nruns' = nruns + 1
  /\ UNCHANGED <<sockOpen, wire, pingsOut, flagVars, timerVars, cbVars,
                 sendVars, msgVars, discVars, spawned>>
  /\ UNCHANGED <<reconnects, raised>>

\* ------------------------------------------------------------------ timers
\* the ping timer fires: send_ping, line 278.  On a closed transport
\* socket.send raises and the timer's thread ends there.
PingFire ==
  /\ ping_timer = "armed" /\ cbPing = "idle"
  /\ ping_timer' = "dead"
  /\ IF sockOpen
       THEN cbPing' = "sent" /\ pingsOut' = pingsOut + 1
       ELSE cbPing' = "idle" /\ pingsOut' = pingsOut
  /\ UNCHANGED <<thr, keep_running, sockOpen, wire, flagVars, connection_timer,
                 pong_timer, orphans, cbConn, cbPong, sendVars, msgVars,
                 discVars, spawned, nruns>>
  /\ UNCHANGED <<reconnects, raised>>

\* send_ping, lines 279-280: a new pong timer replaces self.pong_timer; the
\* one it referred to is not cancelled
PingArm ==
  /\ cbPing \in {"sent", "answered"}
  /\ CanArmPong
  /\ cbPing' = "idle"
  /\ orphans' = Orphaned(pong_timer, orphans)
  /\ pong_timer' = [NewPongTimer EXCEPT !.fresh = (cbPing = "answered")]
  /\ UNCHANGED <<thr, keep_running, sockOpen, wire, pingsOut, flagVars,
                 ping_timer, connection_timer, cbConn, cbPong, sendVars,
                 msgVars, discVars, spawned, nruns>>
  /\ UNCHANGED <<reconnects, raised>>

\* the connection timer fires: _connection_timed_out starts on its thread
ConnFire ==
  /\ connection_timer = "armed" /\ cbConn = "idle"
  /\ connection_timer' = "dead"
  /\ cbConn' = "fired"
  /\ UNCHANGED <<thr, keep_running, sockOpen, wire, pingsOut, flagVars,
                 ping_timer, pong_timer, orphans, cbPing, cbPong, sendVars,
                 msgVars, discVars, spawned, nruns>>
  /\ UNCHANGED <<reconnects, raised>>

\* Client._connection_timed_out
ConnTimedOut ==
  /\ cbConn = "fired"
  /\ cbConn' = "idle"
  /\ Reconnect
  /\ UNCHANGED <<thr, disconnect_called, pong_received, timerVars, cbPing,
                 cbPong, sendVars, msgVars, discVars, spawned, nruns>>
  /\ reconnects' = reconnects + 1
  /\ UNCHANGED raised

\* a pong timer fires, the one self.pong_timer refers to or an orphan:
\* _check_pong starts on its thread
PongFire ==
  /\ cbPong.pc = "idle"
  /\ \/ /\ pong_timer.st = "armed"
        /\ cbPong' = [pc |-> "fired", fresh |-> pong_timer.fresh]
        /\ pong_timer' = [pong_timer EXCEPT !.st = "dead"]
        /\ orphans' = orphans
     \/ /\ orphans # <<>>
        /\ cbPong' = [pc |-> "fired", fresh |-> Head(orphans)]
        /\ orphans' = Tail(orphans)
        /\ pong_timer' = pong_timer
  /\ UNCHANGED <<thr, keep_running, sockOpen, wire, pingsOut, flagVars,
                 ping_timer, connection_timer, cbPing, cbConn, sendVars,
                 msgVars, discVars, spawned, nruns>>
  /\ UNCHANGED <<reconnects, raised>>

\* _check_pong, line 289: the test that decides whether a reconnect is due
PongMissed(received) == ~received

\* Client._check_pong
CheckPong ==
  /\ cbPong.pc = "fired"
  /\ cbPong' = NoCallback
  /\ pong_timer' = CancelPong(pong_timer)
  /\ IF PongMissed(pong_received)
       THEN /\ Reconnect
            /\ pong_received' = pong_received
       ELSE /\ pong_received' = FALSE
            /\ UNCHANGED <<connected, reconnect_required, keep_running,
                           sockOpen, wire, pingsOut>>
  /\ UNCHANGED <<thr, disconnect_called, ping_timer, connection_timer, orphans,
                 cbPing, cbConn, sendVars, msgVars, discVars, spawned, nruns>>
  /\ reconnects' = IF PongMissed(pong_received) THEN reconnects + 1 ELSE reconnects
  /\ UNCHANGED raised

\* -------------------------------------------------------------- disconnect
\* disconnect, lines 107-108
DiscBegin ==
  /\ disc = "idle" /\ thr # "new"
  /\ discCalls < MaxDisconnects
  /\ disc' = "cleared"
  /\ discCalls' = discCalls + 1
  /\ reconnect_required' = FALSE
  /\ UNCHANGED <<thr, keep_running, sockOpen, wire, pingsOut, connected,
                 disconnect_called, pong_received, timerVars, cbVars, sendVars,
                 msgVars, discReturns, spawned, nruns>>
  /\ UNCHANGED <<reconnects, raised>>

\* disconnect, line 109
DiscFlag ==
  /\ disc = "cleared"
  /\ disc' = "flagged"
  /\ disconnect_called' = TRUE
  /\ UNCHANGED <<thr, keep_running, sockOpen, wire, pingsOut, connected,
                 reconnect_required, pong_received, timerVars, cbVars,
                 sendVars, msgVars, discCalls, discReturns, spawned, nruns>>
  /\ UNCHANGED <<reconnects, raised>>

\* disconnect, lines 110-114: socket.close() and _stop_timers()
DiscClose ==
  /\ disc = "flagged"
  /\ disc' = "joining"
  /\ Close
  /\ StopTimers
  /\ UNCHANGED <<thr, flagVars, cbVars, sendVars, msgVars, discCalls,
                 discReturns, spawned, nruns>>
  /\ UNCHANGED <<reconnects, raised>>

\* disconnect, line 116: join(timeout=1) returns when the thread has ended or
\* when the second has passed.  A callback in progress on the thread ends well
\* within the second; what outlasts it is a thread that sleeps, connects,
\* keeps its run open, or repeats the retry loop's tests.
Outlasts ==
  \/ thr \in {"sleep", "connecting"}
  \/ thr = "open" /\ keep_running
  \/ thr = "loop" /\ reconnect_required /\ disconnect_called

DiscJoin ==
  /\ disc = "joining"
  /\ thr = "done" \/ Outlasts
  /\ disc' = "idle"
  /\ discReturns' = discReturns + 1
  /\ UNCHANGED <<thr, keep_running, sockOpen, wire, pingsOut, flagVars,
                 timerVars, cbVars, sendVars, msgVars, discCalls, spawned,
                 nruns>>
  /\ UNCHANGED <<reconnects, raised>>

\* ---------------------------------------------------------------- messages
\* what the peer may send on the open connection in answer to the client: the
\* answer to a request it holds, a pong for a ping it holds; and the event
\* the client meets most, an unsolicited transaction
Inbound ==
  {Response(r.id, r.for) : r \in wire}
    \cup (IF pingsOut > 0 THEN {Pong} ELSE {})
    \cup {Transaction}

\* everything else _on_message and _data_handler tell apart: the other
\* events, a response with no id, a message with no kind, an unrecognised
\* kind with and without an error field, data that is no JSON object
Others ==
  {LedgerClosed, Validation, Manifest, NoIdResponse, NoKind, ErrorKind,
   Unhandled, Array, Malformed}

\* _on_message, lines 178-179: the test that lets a message through
Ignored(called) == called

\* _on_message, lines 185-191: json.loads succeeds; the result is a dict
Parses(m) == m.type # "malformed"
IsObject(m) == m.type \notin {"array", "malformed"}

\* _on_message up to line 191: a message arrives; it is dropped when
\* disconnect_called is set or when it does not parse, otherwise it is about
\* to be handled
Deliver(m) ==
  /\ thr = "open" /\ sockOpen /\ keep_running
  /\ nmsg < MaxMsgs
  /\ m \in Inbound \cup Others
  /\ nmsg' = nmsg + 1
  /\ wire' = wire \ {[id |-> m.id, for |-> m.for]}
  /\ pingsOut' = IF m = Pong THEN pingsOut - 1 ELSE pingsOut
  /\ raised' = "none"
  /\ IF Ignored(disconnect_called) \/ ~Parses(m)
       THEN UNCHANGED <<thr, cur, curLate>>
       ELSE /\ thr' = "onmsg"
            /\ cur' = m
            /\ curLate' = (discCalls > 0)
  /\ UNCHANGED <<keep_running, sockOpen, flagVars, timerVars, cbVars, sendVars,
                 discVars, spawned, nruns, reconnects>>

\* _data_handler, lines 387-393: how a message is classified
IsPong(m) == m.type = "response" /\ m.id = PingId
IsResponseAny(m) == m.type = "response"

IsResponse(m) == m.type = "response" /\ m.id # PingId

\* _data_handler, line 388: a response whose id is absent or empty
MissingIdNever(m) == FALSE

MissingId(m) == m.type = "response" /\ m.id = ""

\* _data_handler, lines 395-402: the user callback an event starts.  For
\* ledgerClosed, _ledger_handler first stores three fields of the message
\* that nothing in the client reads; they are not part of the state here.
HandlerNone(m) == ""

Handler(m) ==
  IF m.type = "ledgerClosed" THEN "on_ledger"
  ELSE IF m.type = "transaction" THEN "on_transaction"
  ELSE IF m.type = "validationReceived" THEN "on_validation"
  ELSE IF m.type = "manifestReceived" THEN "on_manifest"
  ELSE ""

\* _data_handler, line 403: the branch taken by a message of none of the
\* kinds above that has no kind or has an error field
Reported(m) ==
  /\ m.type \notin {"response", "ledgerClosed", "transaction",
                    "validationReceived", "manifestReceived"}
  /\ m.type = "" \/ m.error

\* The exception _data_handler ends with.  Line 389 raises
\* ResponseFormatError.  Line 406 evaluates data.error on a dict, which has
\* no such attribute: AttributeError.
Raises(m) ==
  IF ~IsObject(m) THEN "none"
  ELSE IF MissingId(m) THEN "ResponseFormatError"
  ELSE IF Reported(m) THEN "AttributeError"
  ELSE "none"

\* _response_handler, lines 429-430: the Event popped for the message's id
\* (dict.pop(id, None))
Popped(m) ==
  IF m.id \in DOMAIN responseEvents THEN responseEvents[m.id] ELSE NoSender
Resolves(m) == IsResponse(m) /\ Popped(m) # NoSender

\* _response_handler, line 431: q.put(data), before the Event is set
PutLost(queue, m) == queue

Put(queue, m) == Append(queue, m)

\* Client._response_handler
ResponseHandler(m) ==
  IF Resolves(m)
    THEN /\ responseEvents' = [responseEvents EXCEPT ![m.id] = NoSender]
         /\ q' = Put(q, m)
         /\ ev' = [ev EXCEPT ![Popped(m)] = TRUE]
    ELSE UNCHANGED <<responseEvents, q, ev>>

\* _on_message, lines 193-196, when _data_handler returns: its effect on the
\* parsed message, then _start_timers (cancel the three timers, arm a ping
\* and a connection timer)
Handled ==
  /\ ResponseHandler(cur)
  /\ snd' = IF cur.type = "response" /\ cur.for \in Senders
               /\ snd[cur.for].pc = "sent"
              THEN [snd EXCEPT ![cur.for].early = TRUE]
              ELSE snd
  /\ pong_received' = (IF IsPong(cur) THEN TRUE ELSE pong_received)
  /\ spawned' = IF IsObject(cur) /\ Handler(cur) # ""
                  THEN CallbackWith(spawned, Handler(cur), cur)
                  ELSE spawned
  /\ ping_timer' = "armed"
  /\ connection_timer' = "armed"
  /\ pong_timer' = CancelPong(IF IsPong(cur)
                                THEN [pong_timer EXCEPT !.fresh = TRUE]
                                ELSE pong_timer)
  /\ orphans' = IF IsPong(cur) THEN [k \in DOMAIN orphans |-> TRUE] ELSE orphans
  /\ cbPong' = IF IsPong(cur) /\ cbPong.pc = "fired"
                 THEN [cbPong EXCEPT !.fresh = TRUE]
                 ELSE cbPong
  /\ cbPing' = IF IsPong(cur) /\ cbPing = "sent" THEN "answered" ELSE cbPing
  /\ reconnects' = 0

\* _on_message, lines 193-196.  When _data_handler raises, the exception
\* leaves _on_message before _start_timers; the transport's callback wrapper
\* (websocket-client 0.56.0, WebSocketApp._callback) catches and logs it, and
\* the run loop goes on to the next message.
Dispatch ==
  /\ thr = "onmsg"
  /\ thr' = "open"
  /\ cur' = NoMsg /\ curLate' = FALSE
  /\ raised' = Raises(cur)
  /\ IF Raises(cur) = "none"
       THEN Handled
       ELSE UNCHANGED <<sendVars, pong_received, spawned, timerVars, cbPong,
                        cbPing, reconnects>>
  /\ UNCHANGED <<keep_running, sockOpen, wire, pingsOut, connected,
                 disconnect_called, reconnect_required, cbConn, nmsg,
                 discVars, nruns>>

\* -------------------------------------------------------------------- send
\* send, lines 307-321: the id is chosen and the payload transmitted.  With
\* no socket object yet the call ends in AttributeError; on a closed transport
\* the exception is caught and logged and the call goes on.
SendCall(s, i) ==
  /\ snd[s].pc = "idle"
  /\ IF thr = "new"
       THEN /\ snd' = [snd EXCEPT ![s] = [@ EXCEPT !.pc = "done", !.id = i,
                                                   !.out = "AttributeError"]]
            /\ wire' = wire
       ELSE IF sockOpen
         THEN /\ snd' = [snd EXCEPT ![s] = [@ EXCEPT !.pc = "sent", !.id = i]]
              /\ wire' = wire \cup {[id |-> i, for |-> s]}
         ELSE /\ snd' = [snd EXCEPT ![s] = [@ EXCEPT !.pc = "sent", !.id = i,
                                                     !.txFailed = TRUE]]
              /\ wire' = wire
  /\ UNCHANGED <<thr, keep_running, sockOpen, pingsOut, flagVars, timerVars,
                 cbVars, responseEvents, ev, q, msgVars, discVars, spawned,
                 nruns>>
  /\ UNCHANGED <<reconnects, raised>>

\* send, lines 323-324: a new Event, stored under the id
SendRegister(s) ==
  /\ snd[s].pc = "sent"
  /\ snd' = [snd EXCEPT ![s].pc = "wait"]
  /\ ev' = [ev EXCEPT ![s] = FALSE]
  /\ responseEvents' = [responseEvents EXCEPT ![snd[s].id] = s]
  /\ UNCHANGED <<thr, keep_running, sockOpen, wire, pingsOut, flagVars,
                 timerVars, cbVars, q, msgVars, discVars, spawned, nruns>>
  /\ UNCHANGED <<reconnects, raised>>

\* send, line 333: what the timeout path raises.  TimeoutError is the class
\* of exceptions.py, whose constructor (Error.__init__, exceptions.py line 4)
\* takes a message and data; line 333 gives it the message alone, so the
\* raise statement ends in TypeError and no TimeoutError is ever raised.
TimeoutRaises == "TypeError"

\* send, lines 326-327 and 332-333: the wait elapses with the Event not set
SendTimeout(s) ==
  /\ snd[s].pc = "wait" /\ ~ev[s]
  /\ snd' = [snd EXCEPT ![s] = [@ EXCEPT !.pc = "done", !.out = TimeoutRaises]]
  /\ UNCHANGED <<thr, keep_running, sockOpen, wire, pingsOut, flagVars,
                 timerVars, cbVars, responseEvents, ev, q, msgVars, discVars,
                 spawned, nruns>>
  /\ UNCHANGED <<reconnects, raised>>

\* send, lines 330-331: what the call returns for the item it took off q.
\* The Event stays set, so when the ids differ the loop ends and the call
\* returns None.
SendResultAny(resp, i) == resp

SendResult(resp, i) == IF resp.id = i THEN resp ELSE NoMsg

\* send, lines 326-331: the Event is set; the call takes the head of q
SendTake(s) ==
  /\ snd[s].pc = "wait" /\ ev[s]
  /\ q # <<>>
  /\ q' = Tail(q)
  /\ snd' = [snd EXCEPT ![s] =
               [@ EXCEPT !.pc = "done",
                         !.res = SendResult(Head(q), snd[s].id),
                         !.out = IF SendResult(Head(q), snd[s].id) = NoMsg
                                   THEN "None" ELSE "returned"]]
  /\ UNCHANGED <<thr, keep_running, sockOpen, wire, pingsOut, flagVars,
                 timerVars, cbVars, responseEvents, ev, msgVars, discVars,
                 spawned, nruns>>
  /\ UNCHANGED <<reconnects, raised>>

\* ---------------------------------------------------------- specification
\* the background thread, the transport's events and the timers
NextConn ==
  \/ Connect
  \/ OnOpen
  \/ OnError
  \/ PeerClose
  \/ LocalClose
  \/ OnClose
  \/ LoopTest
  \/ Wake
  \/ PingFire
  \/ PingArm
  \/ ConnFire
  \/ ConnTimedOut
  \/ PongFire
  \/ CheckPong

\* a call of disconnect() that has begun goes on
DiscRun ==
  \/ DiscFlag
  \/ DiscClose
  \/ DiscJoin

\* the caller of disconnect()
NextDisc ==
  \/ DiscBegin
  \/ DiscRun

\* inbound messages
NextMsg ==
  \/ \E m \in Inbound : Deliver(m)
  \/ Dispatch

\* the callers of send()
NextSend ==
  \/ \E s \in Senders, i \in Ids : SendCall(s, i)
  \/ \E s \in Senders : SendRegister(s)
  \/ \E s \in Senders : SendTimeout(s)
  \/ \E s \in Senders : SendTake(s)

\* inbound messages of the other kinds
NextOther == \E m \in Others : Deliver(m)

\* a caller of send() who gives its request the id of the client's pings
\* (line 312 leaves an id the payload has as it is)
NextPing == \E s \in Senders : SendCall(s, PingId)

\* the whole client
Next == NextConn \/ NextDisc \/ NextMsg \/ NextOther \/ NextSend \/ NextPing

Spec == Init /\ [][Next]_vars

\* The connection's life: everything but the callers of send(), which change
\* no variable the connection reads other than the requests the peer holds.
NextLife == NextConn \/ NextDisc \/ NextMsg

LifeSpec == Init /\ [][NextLife]_vars

\* The callers of send() on one transport run: the run opens, carries
\* messages, and ends by the peer's close or by disconnect().  The timers are
\* armed and cancelled but do not fire here, and no retry follows.
NextRequest ==
  \/ Connect
  \/ OnOpen
  \/ PeerClose
  \/ LocalClose
  \/ OnClose
  \/ LoopTest
  \/ NextDisc
  \/ NextMsg
  \/ NextSend

SendSpec == Init /\ [][NextRequest]_vars

\* The callers of send() on one transport run, with requests whose id is
\* "ping" among them.
NextPingRequest == NextRequest \/ NextPing

PingSpec == Init /\ [][NextPingRequest]_vars

\* The same with a peer that sends every kind of message.
NextEvent == NextRequest \/ NextOther

EventSpec == Init /\ [][NextEvent]_vars

\* ------------------------------------------------------------------ claims
\* the send() calls made so far carry pairwise distinct ids
Called(s) == snd[s].pc # "idle"
DistinctIds ==
  \A s, t \in Senders : (s # t /\ Called(s) /\ Called(t)) => snd[s].id # snd[t].id

\* C1: with pairwise distinct request ids, in any order of delivery, a send
\* call that returns a response returns one that carries its own id and
\* answers its own request.
C1_OwnResponseOnly ==
  DistinctIds =>
    \A s \in Senders :
      snd[s].res # NoMsg => snd[s].res.id = snd[s].id /\ snd[s].res.for = s

\* two calls with distinct ids were in flight together and both returned
C1_Witness ==
  /\ DistinctIds
  /\ \A s \in Senders : snd[s].out = "returned"

\* C2: a send call ends in one of two ways, by returning the response that
\* carries its id or by Timeout; stated for calls with pairwise distinct ids
\* made once the socket exists.
C2_TwoOutcomes ==
  DistinctIds =>
    \A s \in Senders :
      (snd[s].pc = "done" /\ snd[s].out # "AttributeError")
        => \/ snd[s].out = "Timeout"
           \/ snd[s].out = "returned" /\ snd[s].res.id = snd[s].id

\* C3: a response delivered after the transmission and before the sender
\* waits finds the registry entry, and the send call returns it as delivered.
C3_EarlyResponseReturned ==
  DistinctIds =>
    \A s \in Senders :
      (snd[s].early /\ snd[s].pc = "done")
        => snd[s].out = "returned" /\ snd[s].res = Response(snd[s].id, s)

\* C4: a send whose transmission failed on a closed transport does not wait,
\* ends in NotConnectedError and leaves no entry in the registry.
C4_NotConnectedFailsFast ==
  \A s \in Senders :
    snd[s].txFailed
      => /\ snd[s].pc # "wait"
         /\ snd[s].pc = "done" => snd[s].out = "NotConnectedError"
         /\ responseEvents[snd[s].id] # s

\* The connection's life with the scheduling the program can count on: a
\* thread that can take a step takes one, an armed timer fires, a transport
\* run that can end or go on does one of the two, and disconnect(), once
\* called, runs to its end.  Nothing obliges the peer to send or the user to
\* call.
FairLifeSpec ==
  /\ LifeSpec
  /\ WF_vars(NextConn)
  /\ WF_vars(DiscRun)
  /\ WF_vars(Dispatch)

\* a transport run starts: run_forever is entered
RunStarts == thr # "connecting" /\ thr' = "connecting"

\* C5: once disconnect() has been called the background thread starts no
\* transport run; stated for the calls that have returned.
C5_NoRunAfterDisconnect == [][discReturns > 0 => ~RunStarts]_vars

\* every step the program takes of its own accord: the background thread,
\* the timers, the handler of a message that has arrived, a call of
\* disconnect() that has begun
ProgramStep == NextConn \/ DiscRun \/ Dispatch

\* C6: after disconnect() is called the background thread eventually ends: it
\* has ended whenever, after the call, the program has no step left to take.
C6_ThreadEnds == (discCalls > 0 /\ ~ENABLED ProgramStep) => thr = "done"

\* C7: the background thread ends only when a disconnect has been requested;
\* a run that ends otherwise is followed by the wait and a new run.
C7_EndsOnlyOnDisconnect == thr = "done" => discCalls > 0

\* C8: a message that arrives once disconnect() has begun resolves no pending
\* request, puts nothing on the response queue and starts no user callback.
C8_LateMessageIgnored ==
  [][(thr = "onmsg" /\ curLate /\ thr' # "onmsg")
       => UNCHANGED <<responseEvents, q, ev, spawned>>]_vars

\* any timer is armed
TimerArmed ==
  \/ ping_timer = "armed"
  \/ connection_timer = "armed"
  \/ pong_timer.st = "armed"
  \/ orphans # <<>>

\* C9: after disconnect() has returned no timer is armed and the connected
\* flag is clear, from then on.
C9_QuietAfterDisconnect == discReturns > 0 => ~TimerArmed /\ ~connected

\* _check_pong runs to its end
PongChecked == cbPong.pc = "fired" /\ cbPong'.pc = "idle"

\* C10: when the pong deadline fires, a reconnect is requested if no pong has
\* arrived since the ping that armed this deadline, and is not requested if
\* one has.
C10_ReconnectIffNoPong ==
  [][PongChecked =>
       /\ ~cbPong.fresh => reconnect_required'
       /\ cbPong.fresh => UNCHANGED <<reconnect_required, keep_running>>]_vars

\* C11: in one silent period (since the connection opened or last carried a
\* message) the timer callbacks invoke reconnect() at most once: the idle
\* timer and a pong deadline, or two pong deadlines, never both do.
C11_OneReconnectPerSilence == reconnects <= 1

\* The connection left to itself: no call of disconnect().  What the code's
\* scheduling guarantees: the background thread goes on when it can (a run
\* whose transport was closed ends, _on_close runs, the retry loop tests, the
\* sleep ends, a parsed message is handled), an armed timer fires and the
\* callback of a timer that fired runs.  Nothing obliges the peer to accept a
\* connection, to send or to close.
ThreadStep == LocalClose \/ OnClose \/ LoopTest \/ Wake \/ Dispatch
TimerStep ==
  \/ PingFire
  \/ PingArm
  \/ ConnFire
  \/ ConnTimedOut
  \/ PongFire
  \/ CheckPong

NextAlone == NextConn \/ NextMsg

AloneSpec ==
  /\ Init
  /\ [][NextAlone]_vars
  /\ WF_vars(ThreadStep)
  /\ WF_vars(TimerStep)

\* _connection_timed_out runs to its end
IdleFires == cbConn = "fired" /\ cbConn' = "idle"

\* a reconnect() call has closed the transport of the run that is open
ClosedForReconnect ==
  thr \in {"open", "onmsg"} /\ reconnect_required /\ ~keep_running

\* C12: when the idle timer's callback runs on an open connection, with no
\* disconnect requested, it sets reconnect_required and closes the transport,
\* and from there the background thread eventually starts a new transport
\* run (for the runs the bound MaxRuns leaves room for).
C12_IdleTimerReconnects ==
  /\ [][(IdleFires /\ thr \in {"open", "onmsg"})
          => ClosedForReconnect' /\ ~sockOpen']_vars
  /\ \A n \in 1..(MaxRuns - 1) :
       (ClosedForReconnect /\ nruns = n) ~> (nruns > n)

\* the idle timer is the only timer that has fired on the first run, its
\* callback has called reconnect(), and the run is still open
C12_Witness ==
  /\ ClosedForReconnect /\ ~sockOpen
  /\ nruns = 1 /\ nmsg = 0
  /\ ping_timer = "armed" /\ connection_timer = "dead" /\ cbConn = "idle"
  /\ reconnects = 1

\* _on_open runs: the transport has opened
Opens == thr = "connecting" /\ thr' = "open"

\* the user callbacks a step starts
Starts(name) ==
  /\ spawned' # spawned
  /\ \E k \in DOMAIN spawned'.names : spawned'.names[k] = name

\* C13: when the transport opens with reconnect_required set, that is, opens
\* again after a reconnect, the on_reconnect handler is started.
C13_OnReconnectInvoked ==
  [][(Opens /\ reconnect_required) => Starts("on_reconnect")]_vars

\* _on_message ends for the message it was handling
HandlesMsg == thr = "onmsg" /\ thr' = "open"

\* C14: a transaction message received while no disconnect is in progress
\* starts on_transaction (a registered handler) exactly once, on a thread of
\* its own, with the decoded message; the same call of _on_message resets the
\* ping and idle timers and returns to the run loop, whether or not the
\* handler has ended (no step of the model ends a handler).
C14_TransactionCallback ==
  [][(HandlesMsg /\ cur.type = "transaction" /\ ~curLate)
       => /\ spawned' = [names |-> <<"on_transaction">>, arg |-> cur,
                          tick |-> 1 - spawned.tick]
          /\ ping_timer' = "armed" /\ connection_timer' = "armed"]_vars

\* with the handler of a transaction started and none started since, a later
\* message is being handled
C14_Witness ==
  /\ spawned.names = <<"on_transaction">> /\ spawned.arg = Transaction
  /\ thr = "onmsg" /\ nmsg = 2 /\ discCalls = 0

\* a send() call is registered and waits for its response
Pending(s) == snd[s].pc = "wait" /\ responseEvents[snd[s].id] = s

\* C15: handling a response whose id is absent or empty ends in
\* ResponseFormatError and changes nothing else: the registry, the response
\* queue, the pending send() calls, the pong flag, the timers and the user
\* callbacks are as they were, and the thread is back in the run loop.
C15_MissingIdOnlyRaises ==
  [][(HandlesMsg /\ cur.type = "response" /\ cur.id = "")
       => /\ raised' = "ResponseFormatError"
          /\ UNCHANGED <<sendVars, flagVars, timerVars, cbVars, spawned,
                         keep_running, sockOpen, wire, pingsOut>>]_vars

\* the exception was raised while a request was pending, and the run is open
\* for the next message
C15_Witness ==
  /\ raised = "ResponseFormatError"
  /\ \E s \in Senders : Pending(s)
  /\ thr = "open" /\ sockOpen /\ keep_running /\ nmsg < MaxMsgs

\* a step of a call of disconnect() made after another call has returned
LaterCallStep == discReturns >= 1 /\ disc' # disc

\* C16: a call of disconnect() made after an earlier call has returned
\* changes none of disconnect_called, reconnect_required, the timers, the
\* registry and the background thread's position.
C16_DisconnectIdempotent ==
  [][LaterCallStep
       => UNCHANGED <<disconnect_called, reconnect_required, timerVars,
                      responseEvents, thr>>]_vars

\* the send() call ended on its timeout path
TimedOut(s) == snd[s].pc = "done" /\ snd[s].out = TimeoutRaises

\* C17: once a send() call has ended on its timeout path its request is out
\* of the registry, so the response to it that arrives later is dropped: it
\* changes neither the registry nor the response queue and sets no Event.
C17_LateResponseDropped ==
  [][(HandlesMsg /\ IsResponse(cur) /\ cur.for \in Senders
        /\ TimedOut(cur.for))
       => UNCHANGED <<responseEvents, q, ev>>]_vars

\* the pong deadline timers that are armed
ArmedPongTimers ==
  Len(orphans) + (IF pong_timer.st = "armed" THEN 1 ELSE 0)

\* the transport run has ended and _on_close has run
RunClosed == thr \in {"loop", "sleep", "done"}

\* C18: at most one pong deadline timer is armed at any time, and once a
\* connection has closed no timer armed for it is left to fire.
C18_TimersCancelled ==
  /\ ArmedPongTimers <= 1
  /\ RunClosed => ~TimerArmed

\* C19: handling a message with no kind, or with an unrecognised kind and an
\* error field, received while no disconnect is in progress, raises nothing
\* out of _on_message, changes no pending request, and ends with the ping
\* and idle timers armed anew.
C19_ErrorMessageOnlyReported ==
  [][(HandlesMsg /\ cur \in {NoKind, ErrorKind} /\ ~curLate)
       => /\ raised' = "none"
          /\ UNCHANGED sendVars
          /\ ping_timer' = "armed" /\ connection_timer' = "armed"]_vars

\* The callers of send() with the scheduling they can count on: a caller's
\* thread goes on when it can, and its timed wait elapses when the Event is
\* not set.
SenderStep(s) == SendRegister(s) \/ SendTimeout(s) \/ SendTake(s)

FairSendSpec ==
  /\ SendSpec
  /\ \A s \in Senders : WF_vars(SenderStep(s))

\* the senders whose Event is set and who have not taken their item yet
Woken == {s \in Senders : snd[s].pc = "wait" /\ ev[s]}

\* C20: the response queue holds an item for every sender that was woken and
\* has not taken one yet, so q.get never waits for an item that does not
\* come; and every send() call made, with equal or distinct ids, with or
\* without a response, eventually returns or raises.
C20_SendCompletes ==
  /\ [](Cardinality(Woken) <= Len(q))
  /\ \A s \in Senders : (snd[s].pc # "idle") ~> (snd[s].pc = "done")

\* two calls in flight with the same id: one was woken and returned the
\* response, the other ended on its timeout path
C20_Witness ==
  \E s, t \in Senders :
    /\ s # t /\ snd[s].id = snd[t].id
    /\ snd[s].pc = "done" /\ snd[s].out = "returned"
    /\ TimedOut(t)

\* C21: handling a response whose id is "ping" sets pong_received and leaves
\* the registry, the response queue and every sender's Event as they were,
\* also when a send() call with id "ping" is registered; such a call
\* is never woken and ends only on its timeout path (or, with no socket yet,
\* before it transmits).
C21_PongOnlySetsFlag ==
  /\ [][(HandlesMsg /\ cur.type = "response" /\ cur.id = PingId)
          => pong_received' /\ UNCHANGED <<responseEvents, q, ev>>]_vars
  /\ [](\A s \in Senders :
          (snd[s].id = PingId /\ snd[s].pc = "done")
            => snd[s].out \in {TimeoutRaises, "AttributeError"})

\* a send() call with id "ping" is registered and waits; the peer has
\* answered its request, the one message delivered, and the answer was
\* handled as a pong after the call had registered
C21_Witness ==
  \E s \in Senders :
    /\ Pending(s) /\ snd[s].id = PingId /\ ~snd[s].txFailed /\ ~ev[s]
    /\ ~snd[s].early
    /\ [id |-> PingId, for |-> s] \notin wire
    /\ thr = "open" /\ sockOpen /\ nmsg = 1 /\ pingsOut = 1
    /\ pong_received

====
